---- MODULE Spec2Model ----
(***************************************************************************)
(* Tool-call instrumentation of backend/app/utils/listen/toolkit_listen.py *)
(* listen_toolkit wraps a toolkit method (async_wrapper / sync_wrapper),   *)
(* hands an Activate event to the task queue before the wrapped body and a *)
(* Deactivate event after it; _safe_put_queue delivers an event from a     *)
(* thread with or without a running event loop.                            *)
(* auto_listen_toolkit installs such wrappers on a class for the methods   *)
(* of its base class; HumanToolkit.ask_human_via_gui is a wrapped method   *)
(* that puts an Ask event and waits for the user's answer.                 *)
(*                                                                         *)
(* Python strings are sequences of one-character strings, so that len(),   *)
(* slicing and concatenation are the sequence operations.                  *)
(*                                                                         *)
(* What the model takes as given:                                          *)
(*  - TaskLock (app.service.task) is not part of these sources: its        *)
(*    put_queue is a coroutine that appends the event to the queue, raises,*)
(*    or never completes (a pending delivery no step completes);           *)
(*  - the queue is the sequence of the events enqueued so far (no consumer *)
(*    is modelled);                                                        *)
(*  - the inputs= and return_msg= formatters return a text and do not      *)
(*    raise;                                                               *)
(*  - of an event's data the method_name and the message are kept          *)
(*    (agent_name, toolkit_name and process_task_id do not depend on the   *)
(*    wrapper's control flow); call tells the events of two invocations    *)
(*    apart;                                                               *)
(*  - an event loop runs one coroutine or background task at a time, and   *)
(*    none while a plain function called on its thread has not returned.   *)
(*  - TaskLock has add_background_task, which does not raise, except in   *)
(*    the runs of FaultSpec, where a call of _safe_put_queue's try block   *)
(*    raises RuntimeError inside a running loop;                           *)
(*  - a class is what its __dict__ holds; inspect.signature does not raise;*)
(*  - get_human_input gives the user's answer, or never completes.         *)
(***************************************************************************)
EXTENDS Integers, Sequences, FiniteSets, TLC

\* ------------------------------------------------------------------ text

\* MAX_ARGS_LENGTH = 500 (argument summaries)
MAX_ARGS_LENGTH == 500

\* MAX_LENGTH = 500 (fallback text of a result json cannot serialize)
MAX_LENGTH == 500

\* How far beyond the limits the long texts of the checked inputs reach.
Extra == 3

\* Length of the short texts of the checked inputs.
ShortLen == 2

TruncPrefix ==
    <<".",".","."," ","(","t","r","u","n","c","a","t","e","d",","," ","t",
      "o","t","a","l"," ","l","e","n","g","t","h",":"," ">>

TruncTail ==
    <<" ","c","h","a","r","s",")">>

SepComma ==
    <<","," ">>

NoneText ==
    <<"N","o","n","e">>

NullText ==
    <<"n","u","l","l">>

PptxContent ==
    <<"c","r","e","a","t","e"," ","p","r","e","s","e","n","t","a","t","i",
      "o","n"," ","w","i","t","h"," ","c","o","n","t","e","n","t",":"," ">>

PptxFilename ==
    <<","," ","f","i","l","e","n","a","m","e",":"," ">>

PptxTemplate ==
    <<","," ","t","e","m","p","l","a","t","e",":"," ">>

MisuseHead ==
    <<"A","s","y","n","c"," ","f","u","n","c","t","i","o","n"," ">>

MisuseTail ==
    <<" ","w","a","s"," ","i","n","c","o","r","r","e","c","t","l","y"," ",
      "c","a","l","l","e","d"," ","i","n"," ","s","y","n","c"," ","c","o",
      "n","t","e","x","t","."," ","T","h","i","s"," ","i","s"," ","a"," ",
      "b","u","g"," ","-"," ","t","h","e"," ","f","u","n","c","t","i","o",
      "n"," ","s","h","o","u","l","d"," ","b","e"," ","m","a","r","k","e",
      "d"," ","a","s"," ","a","s","y","n","c"," ","o","r"," ","s","h","o",
      "u","l","d"," ","n","o","t"," ","r","e","t","u","r","n"," ","a"," ",
      "c","o","r","o","u","t","i","n","e",".">>

NameCreatePresentation ==
    <<"c","r","e","a","t","e","_","p","r","e","s","e","n","t","a","t","i",
      "o","n">>

NameAskHuman ==
    <<"a","s","k","_","h","u","m","a","n","_","v","i","a","_","g","u","i">>

NameSendMessage ==
    <<"s","e","n","d","_","m","e","s","s","a","g","e","_","t","o","_","u",
      "s","e","r">>

PptxSuccess ==
    <<"P","o","w","e","r","P","o","i","n","t"," ","p","r","e","s","e","n",
      "t","a","t","i","o","n"," ","s","u","c","c","e","s","s","f","u","l",
      "l","y"," ","c","r","e","a","t","e","d"," ","a","t"," ","/","x","/",
      "y",".","p","p","t","x">>

BadPath ==
    <<"b","a","d"," ","p","a","t","h">>

CoroText ==
    <<"<","c","o","r","o","u","t","i","n","e"," ","o","b","j","e","c","t",
      ">">>

ObjText ==
    <<"<","o","b","j","e","c","t",">">>

Digit(d) == <<SubSeq(<<"0","1","2","3","4","5","6","7","8","9">>, d + 1, d + 1)[1]>>

\* str(n) of a natural number: its decimal digits.
RECURSIVE Digits(_)
Digits(n) == IF n < 10 THEN Digit(n) ELSE Digits(n \div 10) \o Digit(n % 10)

\* A text of n characters, no two neighbours alike.
Fill(n) == [i \in 1..n |-> Digit(i % 10)[1]]

\* s[:MAX] + f"... (truncated, total length: {len(s)} chars)"
TruncatedText(s, max) == SubSeq(s, 1, max) \o TruncPrefix \o Digits(Len(s)) \o TruncTail

\* Mutant of TruncateArgs: the summary is cut only when it is longer than the limit
\* and the suffix together.
TruncateArgsLate(s) ==
    IF Len(s) > MAX_ARGS_LENGTH + Len(TruncPrefix) THEN TruncatedText(s, MAX_ARGS_LENGTH)
    ELSE s

\* if len(args_str) > MAX_ARGS_LENGTH: args_str = args_str[:MAX_ARGS_LENGTH] + ...
TruncateArgs(s) == IF Len(s) > MAX_ARGS_LENGTH THEN TruncatedText(s, MAX_ARGS_LENGTH) ELSE s

\* if len(res_str) > MAX_LENGTH: res_msg = res_str[:MAX_LENGTH] + ... else: res_msg = res_str
TruncateResult(s) == IF Len(s) > MAX_LENGTH THEN TruncatedText(s, MAX_LENGTH) ELSE s

\* func.__name__.replace("_", " ")
MethodName(name) == [i \in 1..Len(name) |-> IF name[i] = "_" THEN " " ELSE name[i]]

\* ---------------------------------------------------------------- values

\* Python values that reach the wrappers as arguments and results.
StrV(s) == [t |-> "str", s |-> s, n |-> 0]
IntV(n) == [t |-> "int", s |-> <<>>, n |-> n]
NoneV == [t |-> "none", s |-> <<>>, n |-> 0]
\* An object json cannot serialize, with the text str() gives for it.
ObjV(s) == [t |-> "obj", s |-> s, n |-> 0]
\* A coroutine object.
CoroV == [t |-> "coro", s |-> CoroText, n |-> 0]

\* isinstance(res, str)
IsStr(v) == v.t = "str"

\* asyncio.iscoroutine(res)
IsCoroutine(v) == v.t = "coro"

\* str(v), also the text an f-string puts for {v}
Str(v) ==
    CASE v.t = "str" -> v.s
      [] v.t = "int" -> Digits(v.n)
      [] v.t = "none" -> NoneText
      [] OTHER -> v.s

\* repr(v): a str in quotes, the others as str(v)
Repr(v) == IF v.t = "str" THEN <<"'">> \o v.s \o <<"'">> ELSE Str(v)

\* json.dumps raises TypeError on these
JsonFails(v) == v.t \in {"obj", "coro"}

\* json.dumps(v, ensure_ascii=False) of a value it can serialize
JsonDumps(v) ==
    CASE v.t = "str" -> <<"\"">> \o v.s \o <<"\"">>
      [] v.t = "int" -> Digits(v.n)
      [] OTHER -> NullText

\* Exceptions: a class and the text str(e) gives.
Err(cls, msg) == [cls |-> cls, msg |-> msg]
NoError == Err("none", <<>>)

\* Classes that derive from Exception (the others derive from BaseException only).
ExceptionClasses == {"ValueError", "TypeError", "QueueError"}

\* what `except Exception` catches
IsException(e) == e.cls \in ExceptionClasses

\* str(error)
StrError(e) == e.msg

\* ", ".join(parts)
RECURSIVE JoinComma(_)
JoinComma(parts) ==
    IF Len(parts) = 0 THEN <<>>
    ELSE IF Len(parts) = 1 THEN parts[1]
    ELSE parts[1] \o SepComma \o JoinComma(Tail(parts))

\* The default summary: args without self as repr, then name=repr of the kwargs.
DefaultArgsStr(args, kwargs) ==
    LET args_str == JoinComma([i \in 1..Len(args) |-> Repr(args[i])])
        kwargs_str == JoinComma([i \in 1..Len(kwargs) |->
                                   kwargs[i].k \o <<"=">> \o Repr(kwargs[i].v)])
    IN  IF Len(kwargs) > 0
        THEN IF Len(args_str) > 0 THEN args_str \o SepComma \o kwargs_str ELSE kwargs_str
        ELSE args_str

\* The inputs= formatters of the toolkits:
\*   "question": lambda _, question: question                (HumanToolkit)
\*   "pptx": lambda _, content, filename, template=None: f"create presentation ..."
CustomArgsStr(inputs, args) ==
    IF inputs = "question" THEN Str(args[1])
    ELSE PptxContent \o Str(args[1]) \o PptxFilename \o Str(args[2])
         \o PptxTemplate \o Str(IF Len(args) > 2 THEN args[3] ELSE NoneV)

\* args_str as handed to the Activate event
ArgsStr(inputs, args, kwargs) ==
    TruncateArgs(IF inputs # "none" THEN CustomArgsStr(inputs, args)
                 ELSE DefaultArgsStr(args, kwargs))

\* A return_msg= formatter: return_msg=str
ReturnMsg(res) == Str(res)

\* Mutant of ResultMessage: every summary goes through the truncation of the
\* fallback.
ResultMessageTruncated(return_msg, res, error) ==
    IF return_msg # "none" /\ error = NoError THEN TruncateResult(ReturnMsg(res))
    ELSE IF IsStr(res) THEN TruncateResult(res.s)
    ELSE IF error = NoError
         THEN IF JsonFails(res) THEN TruncateResult(Str(res))
              ELSE TruncateResult(JsonDumps(res))
         ELSE TruncateResult(StrError(error))

\* res_msg: the summary of the result or of the error
ResultMessage(return_msg, res, error) ==
    IF return_msg # "none" /\ error = NoError THEN ReturnMsg(res)
    ELSE IF IsStr(res) THEN res.s
    ELSE IF error = NoError
         THEN IF JsonFails(res) THEN TruncateResult(Str(res)) ELSE JsonDumps(res)
         ELSE StrError(error)

\* error_msg of the TypeError raised for a coroutine returned in sync context
MisuseError(name) == Err("TypeError", MisuseHead \o name \o MisuseTail)

\* ------------------------------------------------------------ invocations

\* The invocations in flight: each name is one call of an instrumented method.
Calls == {"a", "b"}

\* What the wrapped function does when it is called: returns v or raises e.
Ok(v) == [k |-> "ok", v |-> v, e |-> NoError]
Raise(e) == [k |-> "raise", v |-> NoneV, e |-> e]

\* One invocation: the decorated function (variant: iscoroutinefunction(func);
\* name: func.__name__), the decorator's inputs= and return_msg=, the receiver
\* (hasTaskId: it has the attribute api_task_id), whether the calling thread runs
\* an event loop, the arguments after self, and what the function will do.
\* fault: the call of _safe_put_queue's try block that raises RuntimeError although
\* a loop is running ("create_task", "add_background_task"), or "none".
Cfg(variant, loop, hasTaskId, name, inputs, return_msg, args, kwargs, out) ==
    [variant |-> variant, loop |-> loop, hasTaskId |-> hasTaskId, name |-> name,
     inputs |-> inputs, return_msg |-> return_msg, args |-> args, kwargs |-> kwargs,
     out |-> out, fault |-> "none"]

NoCfg == Cfg("sync", FALSE, FALSE, <<>>, "none", "none", <<>>, <<>>, Ok(NoneV))

\* A coroutine function runs on the event loop; a plain function is called from
\* the loop's thread or from a thread without a loop.
Modes == {<<"async", TRUE>>, <<"sync", TRUE>>, <<"sync", FALSE>>}

ShortText == Fill(ShortLen)

ValueError == Err("ValueError", BadPath)
\* asyncio.CancelledError and SystemExit derive from BaseException.
CancelledError == Err("CancelledError", <<>>)
SystemExit == Err("SystemExit", <<>>)

\* The BaseException that ends a coroutine (it is cancelled) or a plain function.
Abort(variant) == IF variant = "async" THEN CancelledError ELSE SystemExit

\* The invocations of the concurrent runs.
Configs ==
    {Cfg(m[1], m[2], h, IF m[1] = "async" THEN NameAskHuman ELSE NameSendMessage,
         "none", "none", <<StrV(ShortText)>>, <<>>,
         CASE o = "ok" -> Ok(StrV(ShortText))
           [] o = "error" -> Raise(ValueError)
           [] OTHER -> Raise(Abort(m[1]))) :
       m \in Modes, h \in BOOLEAN, o \in {"ok", "error", "abort"}}
    \cup {Cfg("sync", l, TRUE, NameSendMessage, "none", "none", <<StrV(ShortText)>>,
              <<>>, Ok(CoroV)) : l \in BOOLEAN}

LimitText == Fill(MAX_ARGS_LENGTH)
LongText == Fill(MAX_ARGS_LENGTH + Extra)

\* The texts of the checked arguments and results: short, up to the limit once
\* quoted, at the limit, beyond it.
Texts == {ShortText, Fill(MAX_ARGS_LENGTH - ShortLen), LimitText, LongText}

\* inputs=, the arguments after self, the keyword arguments.
ArgSets ==
    {<<"none", <<>>, <<>>>>}
    \cup {<<"none", <<StrV(t)>>, <<>>>> : t \in Texts}
    \cup {<<"none", <<StrV(ShortText), IntV(7)>>, <<[k |-> <<"k">>, v |-> StrV(t)]>>>> :
            t \in Texts}
    \cup {<<"none", <<>>, <<[k |-> <<"k">>, v |-> NoneV]>>>>}
    \cup {<<"question", <<StrV(t)>>, <<>>>> : t \in Texts}
    \cup {<<"pptx", <<StrV(t), StrV(ShortText)>>, <<>>>> : t \in Texts}

\* What the wrapped function returns or raises.
Results ==
    {Ok(StrV(t)) : t \in Texts \cup {PptxSuccess}}
    \cup {Ok(IntV(42)), Ok(NoneV), Ok(CoroV)}
    \cup {Ok(ObjV(t)) : t \in Texts}
    \cup {Raise(Err("ValueError", t)) : t \in {BadPath, LongText}}

\* The invocations of the runs that check the summaries.
MsgConfigs ==
    {Cfg(m[1], m[2], TRUE,
         IF a[1] = "pptx" THEN NameCreatePresentation
         ELSE IF m[1] = "async" THEN NameAskHuman ELSE NameSendMessage,
         a[1], r, a[2], a[3], o) :
       m \in Modes, a \in ArgSets, r \in {"none", "str"}, o \in Results}
    \cup {Cfg(m[1], m[2], h, NameSendMessage, "none", "none", <<StrV(LongText)>>, <<>>,
              Raise(Abort(m[1]))) : m \in Modes, h \in BOOLEAN}

VARIABLES
    pc,      \* where each invocation stands in its wrapper
    cfg,     \* the invocation's function, receiver, arguments
    loc,     \* the wrapper's locals, and what the invocation has done so far
    ret,     \* what the caller got back
    tasks,   \* the deliveries: awaited puts, background tasks, private threads
    queue,   \* the task queue: the events put_queue has enqueued, in order
    base,    \* the attributes of the base_toolkit_class given to auto_listen_toolkit
    cls_dict, \* cls.__dict__ of the decorated class: name -> attribute
    applied  \* how many times class_decorator has been applied to cls

callVars == <<pc, cfg, loc, ret, tasks, queue>>
autoVars == <<base, cls_dict, applied>>
vars == <<pc, cfg, loc, ret, tasks, queue, base, cls_dict, applied>>

NoArgs == [args |-> <<>>, kwargs |-> <<>>]

IdleLoc ==
    [args_str |-> <<>>, res |-> NoneV, error |-> NoError, res_msg |-> <<>>,
     runs |-> 0, passed |-> NoArgs, resolved |-> FALSE, act |-> 0, deact |-> 0,
     closed |-> FALSE, reply |-> NoneV]

NoRet == [k |-> "none", v |-> NoneV, e |-> NoError]
Returned(v) == [k |-> "return", v |-> v, e |-> NoError]
Raised(e) == [k |-> "raise", v |-> NoneV, e |-> e]

\* ActionActivateToolkitData / ActionDeactivateToolkitData (data: method_name,
\* message); call tells the events of different invocations apart.
Event(type, c, message) ==
    [type |-> type, call |-> c, method_name |-> MethodName(cfg[c].name),
     message |-> message]

\* One put_queue(data) that was started, or a thread that could not be started.
\* seq: for the private thread of an Activate event, its rank among these threads
\* (the order in which the calls handed their first event to a thread); reg: the
\* task was given to task_lock.add_background_task; obs: handle_task_result was
\* attached to it.
Delivery(ev, kind, st) ==
    [ev |-> ev, kind |-> kind, st |-> st,
     seq |-> IF kind = "thread" /\ ev.type = "activate"
             THEN Cardinality({d \in tasks : d.seq > 0}) + 1 ELSE 0,
     reg |-> FALSE, obs |-> FALSE]

\* No invocation has been made.
NoCalls ==
    /\ pc = [c \in Calls |-> "idle"]
    /\ cfg = [c \in Calls |-> NoCfg]
    /\ loc = [c \in Calls |-> IdleLoc]
    /\ ret = [c \in Calls |-> NoRet]
    /\ tasks = {}
    /\ queue = <<>>

\* The runs of the invocations: no class is being decorated.
Init ==
    /\ NoCalls
    /\ base = {}
    /\ cls_dict = <<>>
    /\ applied = 0

\* The loop's thread is inside a plain function: no coroutine and no background
\* task runs until it returns.
LoopBusy ==
    \E c \in Calls : pc[c] \notin {"idle", "done"} /\ cfg[c].variant = "sync" /\ cfg[c].loop

\* A coroutine resumes only when the loop's thread is free.
CanRun(c) == cfg[c].variant = "async" => ~LoopBusy

\* Mutant of HasApiTaskId: the check of the attribute is left out.
HasApiTaskIdUnchecked(toolkit) == TRUE

\* hasattr(toolkit, 'api_task_id')
HasApiTaskId(toolkit) == toolkit.hasTaskId

\* The error put_queue raises when the enqueue fails.
QueueError == Err("QueueError", <<"q">>)

\* task_lock.put_queue(data) completes: the event is in the queue.
PutQueueOk(d) ==
    /\ queue' = Append(queue, d.ev)
    /\ tasks' = (tasks \ {d}) \cup {[d EXCEPT !.st = "done"]}

\* task_lock.put_queue(data) raises.
PutQueueRaises(d) ==
    /\ queue' = queue
    /\ tasks' = (tasks \ {d}) \cup {[d EXCEPT !.st = "failed"]}

\* Mutant of WaitPc: the put is issued and the wrapper goes on without awaiting it.
WaitPcNotAwaited(nxt) == nxt

\* The wrapper's position while it awaits the put it issued before nxt.
WaitPc(nxt) == IF nxt = "body" THEN "act_wait" ELSE "deact_wait"

\* Mutant of AwaitPutQueue: the coroutine wrapper leaves the put to a background
\* task, as _safe_put_queue does, and goes on at once.
AwaitPutQueueInBackground(c, ev, nxt) ==
    /\ tasks' = tasks \cup {Delivery(ev, "task", "pending")}
    /\ pc' = [pc EXCEPT ![c] = nxt]

\* await task_lock.put_queue(data): the coroutine goes on when the put is done.
AwaitPutQueue(c, ev, nxt) ==
    /\ tasks' = tasks \cup {Delivery(ev, "await", "pending")}
    /\ pc' = [pc EXCEPT ![c] = WaitPc(nxt)]

\* Mutant of SafePutQueue: the caller runs the put itself and waits for its end.
SafePutQueueInline(c, ev, nxt) ==
    /\ tasks' = tasks \cup {Delivery(ev, "await", "pending")}
    /\ pc' = [pc EXCEPT ![c] = WaitPc(nxt)]

\* hasattr(task_lock, "add_background_task"): TaskLock has the method.
HasAddBackgroundTask(task_lock) == TRUE

\* task_lock.add_background_task(task), when task_lock has the method, and
\* task.add_done_callback(handle_task_result).
Registered(task_lock, d) ==
    [d EXCEPT !.reg = HasAddBackgroundTask(task_lock), !.obs = TRUE]

\* Mutant of SafePutQueue: the background task is created and neither given to
\* add_background_task nor observed.
SafePutQueueUnregistered(c, ev, nxt) ==
    /\ pc' = [pc EXCEPT ![c] = nxt]
    /\ \/ /\ cfg[c].loop
          /\ tasks' = tasks \cup {Delivery(ev, "task", "pending")}
       \/ /\ ~cfg[c].loop
          /\ tasks' = tasks \cup {Delivery(ev, "thread", "pending")}

\* _safe_put_queue(task_lock, data): returns at once, the put is left to a
\* background task of the running loop, or to a private thread with a loop of
\* its own; a thread that cannot be started is logged. `except RuntimeError`
\* takes the thread's path for any RuntimeError of the try block: of
\* get_running_loop (no loop), of create_task (no task was made), of
\* add_background_task (the task was made and stays scheduled).
SafePutQueue(c, ev, nxt) ==
    /\ pc' = [pc EXCEPT ![c] = nxt]
    /\ \/ /\ cfg[c].loop /\ cfg[c].fault = "none"
          /\ tasks' = tasks \cup {Registered(cfg[c], Delivery(ev, "task", "pending"))}
       \/ /\ ~cfg[c].loop \/ cfg[c].fault = "create_task"
          /\ tasks' = tasks \cup {Delivery(ev, "thread", "pending")}
       \/ /\ ~cfg[c].loop \/ cfg[c].fault = "create_task"
          /\ tasks' = tasks \cup {Delivery(ev, "thread", "nostart")}
       \/ /\ cfg[c].loop /\ cfg[c].fault = "add_background_task"
          /\ \E st \in {"pending", "nostart"} :
               tasks' = tasks \cup {Delivery(ev, "task", "pending"),
                                    Delivery(ev, "thread", st)}

\* The wrapper is entered: without api_task_id the function is called directly;
\* else the task lock is resolved and args_str is formed.
Invoke(c, k) ==
    /\ pc[c] = "idle"
    /\ k.loop => ~LoopBusy
    /\ cfg' = [cfg EXCEPT ![c] = k]
    /\ IF HasApiTaskId(k)
       THEN /\ pc' = [pc EXCEPT ![c] = "activate"]
            /\ loc' = [loc EXCEPT ![c].resolved = TRUE,
                                  ![c].args_str = ArgsStr(k.inputs, k.args, k.kwargs)]
       ELSE /\ pc' = [pc EXCEPT ![c] = "direct"]
            /\ loc' = loc
    /\ UNCHANGED <<ret, tasks, queue, autoVars>>

\* return await func(*args, **kwargs) / return func(*args, **kwargs)
Direct(c) ==
    /\ pc[c] = "direct"
    /\ CanRun(c)
    /\ pc' = [pc EXCEPT ![c] = "done"]
    /\ loc' = [loc EXCEPT ![c].runs = @ + 1,
                          ![c].passed = [args |-> cfg[c].args, kwargs |-> cfg[c].kwargs]]
    /\ ret' = [ret EXCEPT ![c] = IF cfg[c].out.k = "ok" THEN Returned(cfg[c].out.v)
                                 ELSE Raised(cfg[c].out.e)]
    /\ UNCHANGED <<cfg, tasks, queue, autoVars>>

\* The Activate event is built and dispatched.
Activate(c) ==
    /\ pc[c] = "activate"
    /\ CanRun(c)
    /\ LET ev == Event("activate", c, loc[c].args_str)
       IN  \/ /\ cfg[c].variant = "async"
              /\ AwaitPutQueue(c, ev, "body")
              /\ loc' = [loc EXCEPT ![c].act = @ + 1]
           \/ /\ cfg[c].variant = "sync"
              /\ SafePutQueue(c, ev, "body")
              /\ loc' = [loc EXCEPT ![c].act = @ + 1]
    /\ UNCHANGED <<cfg, ret, queue, autoVars>>

\* The put the coroutine awaits completes, and the coroutine goes on.
AwaitDone(c) ==
    /\ pc[c] \in {"act_wait", "deact_wait"}
    /\ ~LoopBusy
    /\ \E d \in tasks :
         /\ d.kind = "await" /\ d.st = "pending" /\ d.ev.call = c
         /\ PutQueueOk(d)
    /\ pc' = [pc EXCEPT ![c] = IF pc[c] = "act_wait" THEN "body" ELSE "epilogue"]
    /\ UNCHANGED <<cfg, loc, ret, autoVars>>

\* The put the coroutine awaits raises: nothing catches it in the wrapper.
AwaitFail(c) ==
    /\ pc[c] \in {"act_wait", "deact_wait"}
    /\ ~LoopBusy
    /\ \E d \in tasks :
         /\ d.kind = "await" /\ d.st = "pending" /\ d.ev.call = c
         /\ PutQueueRaises(d)
    /\ pc' = [pc EXCEPT ![c] = "done"]
    /\ ret' = [ret EXCEPT ![c] = Raised(QueueError)]
    /\ UNCHANGED <<cfg, loc, autoVars>>

\* The wrapped function is called with the arguments of the call.
BodyStart(c) ==
    /\ pc[c] = "body"
    /\ CanRun(c)
    /\ pc' = [pc EXCEPT ![c] = "running"]
    /\ loc' = [loc EXCEPT ![c].runs = @ + 1,
                          ![c].passed = [args |-> cfg[c].args, kwargs |-> cfg[c].kwargs]]
    /\ UNCHANGED <<cfg, ret, tasks, queue, autoVars>>

\* Mutant of BodyResult: the plain wrapper takes a coroutine as any other result.
BodyResultUnchecked(variant, name, out) ==
    IF out.k = "ok"
    THEN [res |-> out.v, error |-> NoError, escaped |-> FALSE, closed |-> FALSE]
    ELSE [res |-> NoneV, error |-> out.e, escaped |-> ~IsException(out.e),
          closed |-> FALSE]

\* try: res = func(...) except Exception as e: error = e. The plain wrapper closes
\* a coroutine it got (closed) and raises TypeError inside the try. escaped: the
\* function raised what `except Exception` does not catch.
BodyResult(variant, name, out) ==
    IF out.k = "ok"
    THEN IF variant = "sync" /\ IsCoroutine(out.v)
         THEN [res |-> out.v, error |-> MisuseError(name), escaped |-> FALSE,
               closed |-> TRUE]
         ELSE [res |-> out.v, error |-> NoError, escaped |-> FALSE, closed |-> FALSE]
    ELSE IF IsException(out.e)
         THEN [res |-> NoneV, error |-> out.e, escaped |-> FALSE, closed |-> FALSE]
         ELSE [res |-> NoneV, error |-> out.e, escaped |-> TRUE, closed |-> FALSE]

\* The wrapped function finishes.
BodyEnd(c) ==
    /\ pc[c] = "running"
    /\ CanRun(c)
    /\ LET r == BodyResult(cfg[c].variant, cfg[c].name, cfg[c].out)
       IN  IF r.escaped
           THEN /\ pc' = [pc EXCEPT ![c] = "done"]
                /\ ret' = [ret EXCEPT ![c] = Raised(r.error)]
                /\ loc' = loc
           ELSE /\ pc' = [pc EXCEPT ![c] = "deact"]
                /\ loc' = [loc EXCEPT ![c].res = r.res, ![c].error = r.error,
                                      ![c].closed = r.closed]
                /\ ret' = ret
    /\ UNCHANGED <<cfg, tasks, queue, autoVars>>

\* res_msg is formed, the Deactivate event is built and dispatched.
Deactivate(c) ==
    /\ pc[c] = "deact"
    /\ CanRun(c)
    /\ LET res_msg == ResultMessage(cfg[c].return_msg, loc[c].res, loc[c].error)
           ev == Event("deactivate", c, res_msg)
       IN  \/ /\ cfg[c].variant = "async"
              /\ AwaitPutQueue(c, ev, "epilogue")
              /\ loc' = [loc EXCEPT ![c].deact = @ + 1, ![c].res_msg = res_msg]
           \/ /\ cfg[c].variant = "sync"
              /\ SafePutQueue(c, ev, "epilogue")
              /\ loc' = [loc EXCEPT ![c].deact = @ + 1, ![c].res_msg = res_msg]
    /\ UNCHANGED <<cfg, ret, queue, autoVars>>

\* if error is not None: raise error; return res
Epilogue(error, res) == IF error # NoError THEN Raised(error) ELSE Returned(res)

Return(c) ==
    /\ pc[c] = "epilogue"
    /\ CanRun(c)
    /\ pc' = [pc EXCEPT ![c] = "done"]
    /\ ret' = [ret EXCEPT ![c] = Epilogue(loc[c].error, loc[c].res)]
    /\ UNCHANGED <<cfg, loc, tasks, queue, autoVars>>

\* The background task of _safe_put_queue runs on the loop: the put completes,
\* or raises and handle_task_result logs it.
RunTask(d) ==
    /\ d.kind = "task" /\ d.st = "pending"
    /\ ~LoopBusy
    /\ \/ PutQueueOk(d)
       \/ PutQueueRaises(d)
    /\ UNCHANGED <<pc, cfg, loc, ret, autoVars>>

\* run_in_thread: the private thread's loop runs the put to its end; an
\* exception is logged.
RunInThread(d) ==
    /\ d.kind = "thread" /\ d.st = "pending"
    /\ \/ PutQueueOk(d)
       \/ PutQueueRaises(d)
    /\ UNCHANGED <<pc, cfg, loc, ret, autoVars>>

\* The steps of the wrapper of call c that wait for nothing.
WrapperStep(c) ==
    \/ Direct(c)
    \/ Activate(c)
    \/ BodyStart(c)
    \/ BodyEnd(c)
    \/ Deactivate(c)
    \/ Return(c)

\* The deliveries' steps.
Deliver ==
    \/ \E c \in Calls : AwaitDone(c)
    \/ \E c \in Calls : AwaitFail(c)
    \/ \E d \in tasks : RunTask(d)
    \/ \E d \in tasks : RunInThread(d)

Next ==
    \/ \E c \in Calls : \E k \in Configs : Invoke(c, k)
    \/ \E c \in Calls : WrapperStep(c)
    \/ Deliver

Spec == Init /\ [][Next]_vars

\* One invocation at a time, over the arguments and results that decide the
\* summaries.
MsgNext ==
    \/ \E k \in MsgConfigs : Invoke("a", k)
    \/ WrapperStep("a")
    \/ Deliver

MsgSpec == Init /\ [][MsgNext]_vars

\* The invocations of the runs in which a call of _safe_put_queue's try block
\* raises RuntimeError inside a running loop.
FaultConfigs ==
    {k \in Configs : k.variant = "sync" /\ k.hasTaskId /\ k.out = Ok(StrV(ShortText))}
    \cup {[k EXCEPT !.fault = f] :
            k \in {x \in Configs : /\ x.variant = "sync" /\ x.hasTaskId /\ x.loop
                                   /\ x.out = Ok(StrV(ShortText))},
            f \in {"create_task", "add_background_task"}}

\* One invocation of a plain function on a receiver with a task identity.
FaultNext ==
    \/ \E k \in FaultConfigs : Invoke("a", k)
    \/ Activate("a")
    \/ BodyStart("a")
    \/ BodyEnd("a")
    \/ Deactivate("a")
    \/ Return("a")
    \/ \E d \in tasks : RunTask(d)
    \/ \E d \in tasks : RunInThread(d)

FaultSpec == Init /\ [][FaultNext]_vars

\* The wrapper's own steps are taken by a running thread or loop: each goes on
\* when it can. Nothing is assumed of the deliveries (a put may never complete).
FairSpec == Spec /\ \A c \in Calls : WF_vars(WrapperStep(c))

\* ----------------------------------------------------- auto_listen_toolkit

EXCLUDED_METHODS ==
    {<<"g","e","t","_","t","o","o","l","s">>,
     <<"g","e","t","_","c","a","n","_","u","s","e","_","t","o","o","l","s">>,
     <<"t","o","o","l","k","i","t","_","n","a","m","e">>,
     <<"r","u","n","_","m","c","p","_","s","e","r","v","e","r">>,
     <<"m","o","d","e","l","_","d","u","m","p">>,
     <<"m","o","d","e","l","_","d","u","m","p","_","j","s","o","n">>,
     <<"d","i","c","t">>,
     <<"j","s","o","n">>,
     <<"c","o","p","y">>,
     <<"u","p","d","a","t","e">>}

NameGetTools ==
    <<"g","e","t","_","t","o","o","l","s">>

NameInit ==
    <<"_","_","i","n","i","t","_","_">>

\* How many times class_decorator is applied to a class in the checked runs.
MaxApply == 2

\* An attribute of the base class. layers: whether each function on the
\* __wrapped__ chain is a coroutine function, from the attribute itself to the
\* innermost function; a value that is not callable has none.
Member(name, shape) ==
    [name |-> name, callable |-> shape # "attr",
     layers |-> CASE shape = "sync" -> <<"sync">>
                  [] shape = "async" -> <<"async">>
                  [] shape = "wrapped" -> <<"sync", "async">>
                  [] OTHER -> <<>>]

AutoNames ==
    {NameCreatePresentation, NameAskHuman, NameSendMessage, NameGetTools, NameInit}

Shapes == {"absent", "attr", "sync", "async", "wrapped"}

\* The base classes of the checked runs: each name is absent, a value, a plain
\* function, a coroutine function, or a plain decorator layer over a coroutine
\* function.
Bases ==
    {{Member(n, f[n]) : n \in {x \in AutoNames : f[x] # "absent"}} :
       f \in [AutoNames -> Shapes]}

\* The names the decorated class defines in its own body.
OwnSets == SUBSET {NameCreatePresentation, NameGetTools}

NoFunc == [name |-> <<>>, nature |-> "none", calls |-> <<>>]

\* An attribute the decorated class defines in its own body.
Own(name) ==
    [kind |-> "own", variant |-> "none", func |-> NoFunc, wraps |-> name, made |-> 0]

\* Mutant of IsPublic: names with a leading underscore are taken as well.
IsPublicUnchecked(name) == TRUE

\* not name.startswith('_')
IsPublic(name) == ~(Len(name) >= 1 /\ name[1] = "_")

\* base_methods: the public callable attributes of the base class that are not
\* excluded.
BaseMethods(b) ==
    {a \in b : IsPublic(a.name) /\ a.name \notin EXCLUDED_METHODS /\ a.callable}

\* Mutant of Unwrapped: the attribute itself is inspected, not the innermost
\* function.
NotUnwrapped(base_method) == base_method.layers[1]

\* while hasattr(unwrapped_method, '__wrapped__'): the innermost function.
Unwrapped(base_method) == base_method.layers[Len(base_method.layers)]

\* create_wrapper: async_method_wrapper or sync_method_wrapper, named
\* method_name, calling getattr(super(cls, self), method_name).
CreateWrapper(method_name, base_method) ==
    [name |-> method_name, nature |-> Unwrapped(base_method), calls |-> method_name]

\* listen_toolkit(wrap_method)(func): async_wrapper when func is a coroutine
\* function, else sync_wrapper; made tells the function objects of two
\* applications apart.
ListenToolkit(wrap_method, func, made) ==
    [kind |-> "listen", variant |-> IF func.nature = "async" THEN "async" ELSE "sync",
     func |-> func, wraps |-> wrap_method.name, made |-> made]

\* setattr(cls, name, value)
SetAttr(d, name, value) ==
    [n \in DOMAIN d \cup {name} |-> IF n = name THEN value ELSE d[n]]

\* Mutant of Install: a name the class already has is wrapped and set again.
InstallAlways(d, base_method, made) ==
    SetAttr(d, base_method.name,
            ListenToolkit(base_method, CreateWrapper(base_method.name, base_method), made))

\* One turn of the loop over base_methods.items().
Install(d, base_method, made) ==
    IF base_method.name \in DOMAIN d
    THEN d
    ELSE SetAttr(d, base_method.name,
                 ListenToolkit(base_method,
                               CreateWrapper(base_method.name, base_method), made))

\* The loop over base_methods.items(), taken in the given order.
RECURSIVE InstallAll(_, _, _)
InstallAll(d, order, made) ==
    IF order = <<>> THEN d
    ELSE InstallAll(Install(d, Head(order), made), Tail(order), made)

\* The orders in which the attributes of a set can be enumerated.
Orders(S) ==
    {o \in [1..Cardinality(S) -> S] :
       \A i, j \in 1..Cardinality(S) : i # j => o[i] # o[j]}

\* class_decorator(cls)
ClassDecorator ==
    /\ applied < MaxApply
    /\ \E order \in Orders(BaseMethods(base)) :
         cls_dict' = InstallAll(cls_dict, order, applied + 1)
    /\ applied' = applied + 1
    /\ UNCHANGED <<base, callVars>>

\* A class body has been executed and the class is about to be decorated.
AutoInit ==
    /\ NoCalls
    /\ base \in Bases
    /\ cls_dict \in {[n \in own |-> Own(n)] : own \in OwnSets}
    /\ applied = 0

AutoNext == ClassDecorator

AutoSpec == AutoInit /\ [][AutoNext]_vars

\* ---------------------------------------------------- ask_human_via_gui

\* The wrapped function is HumanToolkit.ask_human_via_gui itself.
HumanBody == [k |-> "human", v |-> NoneV, e |-> NoError]

\* ask_human_via_gui(question) on a HumanToolkit, which has api_task_id; the
\* decorator is listen_toolkit(inputs=lambda _, question: question).
HumanConfigs ==
    {Cfg("async", TRUE, TRUE, NameAskHuman, "question", "none", <<StrV(q)>>, <<>>,
         HumanBody) : q \in Texts}

\* What the user answers.
Replies == {ShortText, LongText}

\* ActionAskData(action=Action.ask, data={"question": question, "agent": ...})
AskEvent(c, question) ==
    [type |-> "ask", call |-> c, method_name |-> <<>>, message |-> question]

\* await task_lock.put_queue(ActionAskData(...)) is issued.
AskPut(c) ==
    /\ pc[c] = "running" /\ cfg[c].out = HumanBody
    /\ ~LoopBusy
    /\ tasks' = tasks \cup {Delivery(AskEvent(c, Str(cfg[c].args[1])), "await", "pending")}
    /\ pc' = [pc EXCEPT ![c] = "ask_wait"]
    /\ UNCHANGED <<cfg, loc, ret, queue, autoVars>>

\* The put of the Ask event completes: the function awaits get_human_input.
AskDone(c) ==
    /\ pc[c] = "ask_wait"
    /\ ~LoopBusy
    /\ \E d \in tasks :
         /\ d.kind = "await" /\ d.st = "pending" /\ d.ev.call = c
         /\ PutQueueOk(d)
    /\ pc' = [pc EXCEPT ![c] = "reply_wait"]
    /\ UNCHANGED <<cfg, loc, ret, autoVars>>

\* The put of the Ask event raises: the function ends with the error, which the
\* wrapper's `except Exception` keeps.
AskFail(c) ==
    /\ pc[c] = "ask_wait"
    /\ ~LoopBusy
    /\ \E d \in tasks :
         /\ d.kind = "await" /\ d.st = "pending" /\ d.ev.call = c
         /\ PutQueueRaises(d)
    /\ pc' = [pc EXCEPT ![c] = "deact"]
    /\ loc' = [loc EXCEPT ![c].error = QueueError]
    /\ UNCHANGED <<cfg, ret, autoVars>>

\* Mutant of ReturnReply: the function returns the question it asked.
ReturnQuestion(question, reply) == question

\* return reply
ReturnReply(question, reply) == reply

\* reply = await task_lock.get_human_input(self.agent_name) completes with the
\* user's answer, and the function returns.
HumanReply(c, r) ==
    /\ pc[c] = "reply_wait"
    /\ ~LoopBusy
    /\ pc' = [pc EXCEPT ![c] = "deact"]
    /\ loc' = [loc EXCEPT ![c].reply = StrV(r),
                          ![c].res = ReturnReply(cfg[c].args[1], StrV(r))]
    /\ UNCHANGED <<cfg, ret, tasks, queue, autoVars>>

\* The coroutine is cancelled while it waits for the answer: CancelledError is
\* raised at the await and leaves the function and the wrapper.
HumanCancel(c) ==
    /\ pc[c] = "reply_wait"
    /\ ~LoopBusy
    /\ pc' = [pc EXCEPT ![c] = "done"]
    /\ ret' = [ret EXCEPT ![c] = Raised(CancelledError)]
    /\ UNCHANGED <<cfg, loc, tasks, queue, autoVars>>

\* The invocations of ask_human_via_gui, each by an agent of its own.
HumanNext ==
    \/ \E c \in Calls : \E k \in HumanConfigs : Invoke(c, k)
    \/ \E c \in Calls : Activate(c)
    \/ \E c \in Calls : AwaitDone(c)
    \/ \E c \in Calls : AwaitFail(c)
    \/ \E c \in Calls : BodyStart(c)
    \/ \E c \in Calls : AskPut(c)
    \/ \E c \in Calls : AskDone(c)
    \/ \E c \in Calls : AskFail(c)
    \/ \E c \in Calls : \E r \in Replies : HumanReply(c, r)
    \/ \E c \in Calls : HumanCancel(c)
    \/ \E c \in Calls : Deactivate(c)
    \/ \E c \in Calls : Return(c)

HumanSpec == Init /\ [][HumanNext]_vars

\* ----------------------------------------------------------------- claims

Started(c) == pc[c] # "idle"
Instrumented(c) == Started(c) /\ cfg[c].hasTaskId

\* The events handed to a dispatch so far.
AllEvents == {d.ev : d \in tasks}

InQueue(c, type) == \E i \in 1..Len(queue) : queue[i].call = c /\ queue[i].type = type
Pos(c, type) == CHOOSE i \in 1..Len(queue) : queue[i].call = c /\ queue[i].type = type

\* The dispatch of the event is handed off: the dispatch call has come back to
\* the wrapper (_safe_put_queue has returned, or the awaited put has ended).
HandedOff(c, type) ==
    \E d \in tasks : d.ev.call = c /\ d.ev.type = type
                     /\ (d.kind = "await" => d.st # "pending")

BodyFinished(c) == loc[c].runs = 1 /\ pc[c] \in {"deact", "deact_wait", "epilogue", "done"}

\* C1: every invocation on a receiver with a task identity produces exactly one
\* Activate event before the body starts and, however the body finishes (return,
\* error, cancellation), exactly one Deactivate event before the outcome is handed
\* back to the caller.
C1_ExactlyOnePair ==
    \A c \in Calls : Instrumented(c) =>
        /\ loc[c].act <= 1 /\ loc[c].deact <= 1
        /\ loc[c].runs > 0 => loc[c].act = 1
        /\ (pc[c] = "done" /\ loc[c].runs > 0) => loc[c].deact = 1

\* C2: within one invocation the body begins only after the Activate dispatch is
\* handed off, the Deactivate dispatch is issued only after the body has returned
\* or raised, and it is handed off before control is back at the caller, in both
\* variants and every interleaving.
C2_HandOffOrder ==
    \A c \in Calls : Instrumented(c) =>
        /\ loc[c].runs > 0 => HandedOff(c, "activate")
        /\ loc[c].deact > 0 => BodyFinished(c)
        /\ (pc[c] = "done" /\ loc[c].deact > 0) => HandedOff(c, "deactivate")

C2_Witness ==
    \E c \in Calls, d \in Calls :
        /\ c # d /\ Instrumented(c) /\ Instrumented(d)
        /\ cfg[c].variant = "async" /\ cfg[d].variant = "sync"
        /\ pc[c] = "done" /\ pc[d] = "done"
        /\ HandedOff(c, "deactivate") /\ HandedOff(d, "deactivate")

\* C3: when the wrapped operation raises an error, the Deactivate message is the
\* text of that error, and the caller gets that very error, after the Deactivate
\* event has been handed off.
C3_ErrorReRaised ==
    \A c \in Calls :
        (Instrumented(c) /\ pc[c] = "done" /\ loc[c].runs = 1
         /\ cfg[c].out.k = "raise" /\ IsException(cfg[c].out.e)) =>
            /\ ret[c] = Raised(cfg[c].out.e)
            /\ \E ev \in AllEvents : /\ ev.call = c /\ ev.type = "deactivate"
                                     /\ ev.message = StrError(cfg[c].out.e)
            /\ HandedOff(c, "deactivate")

\* C4: a failed delivery is never visible to the caller, in either variant: the
\* caller gets the wrapped operation's own result or its own error.
C4_DeliveryFailureHidden ==
    \A c \in Calls :
        (Instrumented(c) /\ pc[c] = "done" /\ ~IsCoroutine(cfg[c].out.v)) =>
            ret[c] = IF cfg[c].out.k = "ok" THEN Returned(cfg[c].out.v)
                     ELSE Raised(cfg[c].out.e)

\* C5: on a receiver without api_task_id the wrapped operation runs exactly once
\* with the arguments of the call, no event is produced, no task channel is
\* resolved, and the caller gets the operation's result or error as it is.
C5_BypassUninstrumented ==
    \A c \in Calls : (Started(c) /\ ~cfg[c].hasTaskId) =>
        /\ loc[c].act = 0 /\ loc[c].deact = 0 /\ ~loc[c].resolved
        /\ \A ev \in AllEvents : ev.call # c
        /\ \A i \in 1..Len(queue) : queue[i].call # c
        /\ loc[c].runs <= 1
        /\ pc[c] = "done" =>
             /\ loc[c].runs = 1
             /\ loc[c].passed = [args |-> cfg[c].args, kwargs |-> cfg[c].kwargs]
             /\ ret[c] = IF cfg[c].out.k = "ok" THEN Returned(cfg[c].out.v)
                         ELSE Raised(cfg[c].out.e)

C5_Witness ==
    \E c \in Calls, d \in Calls :
        /\ c # d /\ pc[c] = "done" /\ pc[d] = "done"
        /\ ~cfg[c].hasTaskId /\ ~cfg[d].hasTaskId
        /\ cfg[c].variant = "async" /\ cfg[d].variant = "sync"
        /\ ret[c].k = "raise" /\ ret[d].k = "return"

\* C6: a plain instrumented operation called from a thread without a running loop,
\* with an enqueue that does not fail: both events of the call get into the queue.
\* As a statement of the runs that have come to rest: the call is over, its
\* private threads were started and none is still running or has failed.
C6_BothEventsDelivered ==
    \A c \in Calls :
        (/\ Instrumented(c) /\ cfg[c].variant = "sync" /\ ~cfg[c].loop
         /\ pc[c] = "done"
         /\ \A d \in tasks : d.ev.call = c => d.st = "done") =>
            InQueue(c, "activate") /\ InQueue(c, "deactivate")

\* C7: a plain instrumented call, once entered, comes back to its caller, also
\* when no put ever completes: the caller waits for no delivery.
C7_CallerNeverBlocked ==
    \A c \in Calls : (Started(c) /\ cfg[c].variant = "sync") ~> (pc[c] = "done")

C7_Witness ==
    \E c \in Calls :
        /\ Instrumented(c) /\ cfg[c].variant = "sync" /\ pc[c] = "done"
        /\ queue = <<>>
        /\ \E d \in tasks : d.ev.call = c /\ d.ev.type = "activate" /\ d.st = "pending"
        /\ \E d \in tasks : d.ev.call = c /\ d.ev.type = "deactivate" /\ d.st = "pending"

\* The coroutine wrapper came to its last lines: it returned res or re-raised error.
ReturnedOrReRaised(c) ==
    /\ pc[c] = "done"
    /\ \/ ret[c].k = "return"
       \/ ret[c].k = "raise" /\ loc[c].error # NoError /\ ret[c].e = loc[c].error

\* C8: in the coroutine variant the Activate event is in the queue before the body
\* starts, the Deactivate event is in the queue before the call returns or
\* re-raises, and the queue holds the call's Activate before its Deactivate, in
\* every interleaving of concurrent calls.
C8_AsyncDeliveryOrder ==
    \A c \in Calls : (Instrumented(c) /\ cfg[c].variant = "async") =>
        /\ loc[c].runs > 0 => InQueue(c, "activate")
        /\ ReturnedOrReRaised(c) => InQueue(c, "deactivate")
        /\ InQueue(c, "deactivate") =>
             InQueue(c, "activate") /\ Pos(c, "activate") < Pos(c, "deactivate")

C8_Witness ==
    \E c \in Calls, d \in Calls :
        /\ c # d /\ Instrumented(c) /\ Instrumented(d)
        /\ cfg[c].variant = "async" /\ cfg[d].variant = "async"
        /\ ReturnedOrReRaised(c) /\ ReturnedOrReRaised(d)
        /\ Len(queue) = 4
        /\ Pos(c, "activate") < Pos(d, "activate")
        /\ Pos(d, "activate") < Pos(c, "deactivate")

\* The summary before any truncation: of the arguments of invocation k ...
RawArgs(k) ==
    IF k.inputs # "none" THEN CustomArgsStr(k.inputs, k.args) ELSE DefaultArgsStr(k.args, k.kwargs)

\* ... and of the result or error r of its body.
RawResult(k, r) ==
    IF k.return_msg # "none" /\ r.error = NoError THEN ReturnMsg(r.res)
    ELSE IF r.error # NoError THEN StrError(r.error)
    ELSE IF IsStr(r.res) THEN r.res.s
    ELSE IF JsonFails(r.res) THEN Str(r.res) ELSE JsonDumps(r.res)

\* The result went through the fallback for what json cannot serialize.
Fallback(k, r) ==
    k.return_msg = "none" /\ r.error = NoError /\ ~IsStr(r.res) /\ JsonFails(r.res)

\* m is at most 500 characters long, or the first 500 characters of raw followed
\* by "... (truncated, total length: N chars)" with N the length of raw.
Bounded(m, raw) ==
    \/ Len(m) <= 500
    \/ m = SubSeq(raw, 1, 500) \o TruncPrefix \o Digits(Len(raw)) \o TruncTail

RawOf(ev) ==
    LET k == cfg[ev.call]
    IN  IF ev.type = "activate" THEN RawArgs(k)
        ELSE RawResult(k, BodyResult(k.variant, k.name, k.out))

\* C9 as claimed: every Activate and every Deactivate message is at most 500
\* characters long or the first 500 characters of the summary and the suffix, for
\* every kind of arguments, result and error.
C9_AllMessagesBounded == \A ev \in AllEvents : Bounded(ev.message, RawOf(ev))

\* C9 as amended: every Activate message, and every Deactivate message made by
\* the fallback for a result json cannot serialize, is at most 500 characters long
\* or the first 500 characters and the suffix; every other Deactivate message
\* (textual, serializable or custom-formatted result, error) is the summary at
\* its full length.
C9_TruncatedWhereTheCodeTruncates ==
    \A ev \in AllEvents :
        LET k == cfg[ev.call]
            r == BodyResult(k.variant, k.name, k.out)
        IN  IF ev.type = "activate" \/ Fallback(k, r)
            THEN Bounded(ev.message, RawOf(ev))
                 /\ (Len(RawOf(ev)) <= 500 => ev.message = RawOf(ev))
            ELSE ev.message = RawOf(ev)

C9_Witness ==
    \E i \in 1..Len(queue), j \in 1..Len(queue) :
        /\ queue[i].type = "activate" /\ Len(RawOf(queue[i])) > 500
        /\ queue[i].message # RawOf(queue[i])
        /\ queue[j].type = "deactivate" /\ Len(RawOf(queue[j])) > 500
        /\ Fallback(cfg["a"], BodyResult(cfg["a"].variant, cfg["a"].name, cfg["a"].out))
        /\ Len(queue[j].message) > Len(RawOf(queue[j]))

\* C10: when the wrapped operation succeeds with a textual result and no result
\* formatter is set, the Deactivate message is that text, whatever its length,
\* and the caller gets the same result.
C10_TextResultVerbatim ==
    \A c \in Calls :
        (Instrumented(c) /\ cfg[c].out.k = "ok" /\ IsStr(cfg[c].out.v)
         /\ cfg[c].return_msg = "none") =>
            /\ \A ev \in AllEvents :
                 (ev.call = c /\ ev.type = "deactivate") => ev.message = cfg[c].out.v.s
            /\ (pc[c] = "done" /\ ret[c].k = "return") => ret[c].v = cfg[c].out.v
            /\ (pc[c] = "done" /\ cfg[c].variant = "sync") =>
                 /\ ret[c] = Returned(cfg[c].out.v)
                 /\ \E ev \in AllEvents : ev.call = c /\ ev.type = "deactivate"

C10_Witness ==
    /\ pc["a"] = "done" /\ cfg["a"].hasTaskId /\ cfg["a"].return_msg = "none"
    /\ cfg["a"].out = Ok(StrV(LongText))
    /\ ret["a"] = Returned(StrV(LongText))
    /\ \E i \in 1..Len(queue) :
         queue[i].type = "deactivate" /\ queue[i].message = LongText
                                      /\ Len(queue[i].message) > 500

\* The plain wrapper's function gave a coroutine, and the call is past the body.
Misused(c) ==
    /\ Instrumented(c) /\ cfg[c].variant = "sync"
    /\ cfg[c].out.k = "ok" /\ IsCoroutine(cfg[c].out.v)
    /\ BodyFinished(c)

\* C11: when the function of the non-suspending wrapper gives a coroutine, the
\* wrapper closes the coroutine, never returns it, raises to the caller a
\* TypeError whose text names the function, and still hands exactly one
\* Deactivate event to the dispatcher, whose message is the TypeError's text.
C11_CoroutineMisuse ==
    \A c \in Calls : Misused(c) =>
        LET e == MisuseError(cfg[c].name)
            at == Len(MisuseHead)
        IN  /\ loc[c].closed
            /\ loc[c].error = e
            /\ e.cls = "TypeError"
            /\ SubSeq(e.msg, at + 1, at + Len(cfg[c].name)) = cfg[c].name
            /\ loc[c].deact <= 1
            /\ \A ev \in AllEvents :
                 (ev.call = c /\ ev.type = "deactivate") => ev.message = e.msg
            /\ pc[c] \in {"epilogue", "done"} =>
                 /\ loc[c].deact = 1
                 /\ \E ev \in AllEvents : ev.call = c /\ ev.type = "deactivate"
            /\ pc[c] = "done" => ret[c] = Raised(e)

\* The misuse has been reported to the caller, and its Deactivate is in the queue.
C11_Witness ==
    \E c \in Calls :
        /\ Misused(c) /\ pc[c] = "done" /\ InQueue(c, "deactivate")
        /\ queue[Pos(c, "deactivate")].message = MisuseError(cfg[c].name).msg
        /\ ret[c].k = "raise"

\* The names of the attributes that listen_toolkit wrappers were installed for.
Installed == {n \in DOMAIN cls_dict : cls_dict[n].kind = "listen"}

\* The base class's public callable attributes that are not excluded.
Eligible ==
    {a.name : a \in {x \in base : x.callable /\ x.name[1] # "_"
                                   /\ x.name \notin EXCLUDED_METHODS}}

\* C12: one application of the class decorator installs a wrapper on the class
\* for exactly the base class's public callable attributes that are neither
\* excluded nor in the class's own dictionary; every attribute the class has,
\* the ones its body defines among them, is left as it is; no excluded name and
\* no name with a leading underscore gets a wrapper.
C12_InstallsExactlyEligible ==
    [][applied' = applied + 1 =>
         /\ \A n \in DOMAIN cls_dict : n \in DOMAIN cls_dict' /\ cls_dict'[n] = cls_dict[n]
         /\ DOMAIN cls_dict' \ DOMAIN cls_dict = Eligible \ DOMAIN cls_dict
         /\ \A n \in DOMAIN cls_dict' \ DOMAIN cls_dict :
              /\ cls_dict'[n].kind = "listen"
              /\ n[1] # "_"
              /\ n \notin EXCLUDED_METHODS]_vars

\* The class was decorated: a wrapper was installed, an attribute of its own that
\* the base class has as a method was kept, and the base class has an excluded
\* method and an underscore method that got none.
C12_Witness ==
    /\ applied = 1
    /\ Installed # {}
    /\ \E n \in Eligible : n \in DOMAIN cls_dict /\ cls_dict[n].kind = "own"
    /\ \E a \in base : a.callable /\ a.name \in EXCLUDED_METHODS
                       /\ a.name \notin DOMAIN cls_dict
    /\ \E a \in base : a.callable /\ a.name[1] = "_" /\ a.name \notin DOMAIN cls_dict

\* C13: a second application of the class decorator changes nothing: the class
\* has the same attributes, each wrapper is the one the first application
\* installed (none is wrapped again); and an application gives the same class
\* whatever the order in which the base class's attributes are enumerated.
C13_IdempotentAnyOrder ==
    [][applied' = applied + 1 =>
         /\ applied >= 1 => cls_dict' = cls_dict
         /\ \A o \in Orders(BaseMethods(base)) :
              cls_dict' = InstallAll(cls_dict, o, applied + 1)]_vars

\* The decorator was applied twice to a class that got three wrappers.
C13_Witness ==
    /\ applied = 2
    /\ Cardinality(Installed) >= 3
    /\ \A n \in Installed : cls_dict[n].made = 1

\* C16: an installed wrapper's forwarding function is a coroutine function
\* exactly when the innermost function of the base method is one, the
\* interceptor is the variant of the same kind, the forwarding function calls
\* the base class's method of the same name, and the name the events report is
\* that name with underscores as spaces.
C16_ShimMatchesBase ==
    \A n \in Installed :
        \E a \in base :
            /\ a.name = n
            /\ cls_dict[n].func.nature = a.layers[Len(a.layers)]
            /\ cls_dict[n].variant = a.layers[Len(a.layers)]
            /\ cls_dict[n].func.calls = n
            /\ MethodName(cls_dict[n].func.name) = MethodName(n)
            /\ cls_dict[n].func.name = n

\* Wrappers of both kinds were installed, one of them for a base method whose
\* outer layer is a plain function over a coroutine function.
C16_Witness ==
    /\ \E n \in Installed : cls_dict[n].variant = "sync"
    /\ \E n \in Installed : \E a \in base :
         /\ a.name = n /\ a.layers = <<"sync", "async">>
         /\ cls_dict[n].variant = "async" /\ cls_dict[n].func.nature = "async"

\* C17: every invocation on a receiver with a task identity runs the wrapped
\* function exactly once, never twice and never not at all, in both wrappers and
\* whether or not the Activate event's delivery succeeds.
C17_BodyRunsOnce ==
    \A c \in Calls : Instrumented(c) =>
        /\ loc[c].runs <= 1
        /\ pc[c] = "done" => loc[c].runs = 1

\* The private threads that have put their event in the queue.
ThreadsDone == {d \in tasks : d.kind = "thread" /\ d.st = "done"}

\* The call's Deactivate event is in the queue and its Activate event is not in
\* the queue before it.
Overtaken(c) ==
    /\ InQueue(c, "deactivate")
    /\ InQueue(c, "activate") => Pos(c, "deactivate") < Pos(c, "activate")

\* C14: on the non-suspending path the order of the hand-offs is all that is
\* kept: a call's Deactivate event can be in the queue before its Activate event,
\* and the events of two calls can be in the queue in another order than the one
\* their threads were started in; this happens to plain functions only, both of
\* whose events _safe_put_queue has taken, and not by a put made twice.
C14_OnlyHandOffOrdered ==
    \A c \in Calls : (Instrumented(c) /\ Overtaken(c)) =>
        /\ cfg[c].variant = "sync"
        /\ loc[c].act = 1 /\ loc[c].deact = 1
        /\ HandedOff(c, "activate") /\ HandedOff(c, "deactivate")
        /\ \A i, j \in 1..Len(queue) : (i # j /\ queue[i].call = c) => queue[i] # queue[j]

\* Private threads delivered a call's Deactivate event before its Activate event,
\* and the events of two calls against the order the threads were started in.
C14_Witness ==
    /\ \E c \in Calls :
         /\ ~cfg[c].loop /\ InQueue(c, "activate") /\ Overtaken(c)
         /\ \A d \in tasks : d.ev.call = c => d.kind = "thread"
    /\ \E i, j \in 1..Len(queue) : \E di, dj \in ThreadsDone :
         /\ i < j /\ queue[i].call # queue[j].call
         /\ di.ev = queue[i] /\ dj.ev = queue[j]
         /\ dj.seq > 0 /\ di.seq > dj.seq

\* The calls of plain functions made on the thread of a running loop.
InLoop(c) == Instrumented(c) /\ cfg[c].variant = "sync" /\ cfg[c].loop

\* C15: inside a running loop _safe_put_queue has, when it returns, left the put
\* to a background task of that loop, given the task to add_background_task and
\* attached the observer that logs; it starts no private thread, and a put that
\* fails changes nothing of what the caller gets.
C15_BackgroundTaskRegistered ==
    \A c \in Calls : InLoop(c) =>
        /\ \A type \in {"activate", "deactivate"} :
             HandedOff(c, type) =>
                 \E d \in tasks : /\ d.ev.call = c /\ d.ev.type = type
                                  /\ d.kind = "task" /\ d.reg /\ d.obs
        /\ loc[c].act = 1 => HandedOff(c, "activate")
        /\ loc[c].deact = 1 => HandedOff(c, "deactivate")
        /\ \A d \in tasks : d.ev.call = c => d.kind = "task" /\ d.reg /\ d.obs
        /\ ret[c].k = "raise" => ret[c].e = cfg[c].out.e \/ ret[c].e = loc[c].error
        /\ ret[c].k = "raise" => ret[c].e # QueueError

\* A call made inside a running loop is back at its caller with its result, and
\* a background task that was registered for it has failed.
C15_Witness ==
    \E c \in Calls :
        /\ InLoop(c) /\ pc[c] = "done" /\ ret[c].k = "return"
        /\ \E d \in tasks : d.ev.call = c /\ d.kind = "task" /\ d.reg /\ d.st = "failed"
        /\ \E d \in tasks : d.ev.call = c /\ d.kind = "task" /\ d.reg /\ d.st = "done"

\* The puts started for the event of the call: background tasks, and private
\* threads that were started.
Attempts(c, type) ==
    {d \in tasks : d.ev.call = c /\ d.ev.type = type /\ d.st # "nostart"}

\* The private thread of the event of the call could not be started.
NoStart(c, type) ==
    \E d \in tasks : d.ev.call = c /\ d.ev.type = type /\ d.st = "nostart"

\* C18: each call of _safe_put_queue starts exactly one put of its event, one
\* background task or one private thread, never both, also when create_task or
\* add_background_task fails, so that no event is put in the queue twice. (Never
\* none is checked where the thread could be started: the claim is stronger.)
C18_ExactlyOneAttempt ==
    \A c \in Calls : (Instrumented(c) /\ cfg[c].variant = "sync") =>
        /\ Cardinality(Attempts(c, "activate")) <= loc[c].act
        /\ Cardinality(Attempts(c, "deactivate")) <= loc[c].deact
        /\ ~NoStart(c, "activate") => Cardinality(Attempts(c, "activate")) = loc[c].act
        /\ ~NoStart(c, "deactivate") =>
             Cardinality(Attempts(c, "deactivate")) = loc[c].deact
        /\ \A i, j \in 1..Len(queue) : (i # j /\ queue[i].call = c) => queue[i] # queue[j]

\* The invocations of ask_human_via_gui on a receiver with a task identity.
Asking(c) == Instrumented(c) /\ cfg[c].name = NameAskHuman /\ cfg[c].out = HumanBody

\* The Deactivate events handed to a put for the call.
Deactivates(c) == {ev \in AllEvents : ev.call = c /\ ev.type = "deactivate"}

\* C19 as stated: the queue gets the call's Activate event, whose message is the
\* question, before the Ask event; the Deactivate event is made only after the
\* reply has arrived, its message is the reply, and the reply is what the caller
\* gets; while no reply has arrived there is no Deactivate event and no return.
C19_ReplyThenDeactivate ==
    \A c \in Calls : Asking(c) =>
        LET q == Str(cfg[c].args[1])
        IN  /\ InQueue(c, "ask") =>
                 /\ InQueue(c, "activate") /\ Pos(c, "activate") < Pos(c, "ask")
                 /\ queue[Pos(c, "activate")].message = q
            /\ \A ev \in Deactivates(c) :
                 loc[c].reply # NoneV /\ ev.message = Str(loc[c].reply)
            /\ ret[c].k = "return" => ret[c].v = loc[c].reply
            /\ loc[c].reply = NoneV => loc[c].deact = 0 /\ ret[c].k # "return"

\* C19 as amended: the Activate message is the question cut to its first 500
\* characters, with the note of the cut, when it is longer; a Deactivate event
\* made without a reply is the one of a function that failed (the put of the Ask
\* event raised) and carries the error's text; without reply and without error
\* there is no Deactivate event and the caller gets no result.
C19_ReplyOrErrorThenDeactivate ==
    \A c \in Calls : Asking(c) =>
        LET q == Str(cfg[c].args[1])
            cut == SubSeq(q, 1, MAX_ARGS_LENGTH) \o TruncPrefix \o Digits(Len(q))
                     \o TruncTail
        IN  /\ InQueue(c, "ask") =>
                 /\ InQueue(c, "activate") /\ Pos(c, "activate") < Pos(c, "ask")
                 /\ queue[Pos(c, "ask")].message = q
                 /\ queue[Pos(c, "activate")].message =
                      IF Len(q) > MAX_ARGS_LENGTH THEN cut ELSE q
            /\ \A ev \in Deactivates(c) :
                 \/ loc[c].reply # NoneV /\ ev.message = Str(loc[c].reply)
                 \/ /\ loc[c].reply = NoneV /\ loc[c].error = QueueError
                    /\ ev.message = StrError(loc[c].error)
            /\ ret[c].k = "return" =>
                 /\ ret[c].v = loc[c].reply /\ loc[c].reply # NoneV
                 /\ InQueue(c, "deactivate")
                 /\ queue[Pos(c, "deactivate")].message = Str(loc[c].reply)
            /\ (loc[c].reply = NoneV /\ loc[c].error = NoError) =>
                 loc[c].deact = 0 /\ ret[c].k # "return"
            /\ (loc[c].reply = NoneV /\ pc[c] = "done") => ret[c].k = "raise"

\* A question of more than 500 characters was asked and answered: the caller has
\* the reply, and the queue holds the cut Activate, the Ask and the Deactivate.
C19_Witness ==
    \E c \in Calls :
        /\ Asking(c) /\ pc[c] = "done" /\ ret[c] = Returned(StrV(LongText))
        /\ Len(Str(cfg[c].args[1])) > MAX_ARGS_LENGTH
        /\ InQueue(c, "activate") /\ InQueue(c, "ask") /\ InQueue(c, "deactivate")
        /\ Pos(c, "activate") < Pos(c, "ask") /\ Pos(c, "ask") < Pos(c, "deactivate")
        /\ queue[Pos(c, "activate")].message # Str(cfg[c].args[1])
        /\ queue[Pos(c, "deactivate")].message = LongText

====
